---- MODULE Spec2Model ----
(***************************************************************************)
(* Model of remesh.py: the mesh-reduction controller                       *)
(* (intelligent_mesh_reduction), the analysis it calls, the four           *)
(* decimation primitives and the post-processing pass.                     *)
(*                                                                         *)
(* The mesh engine (bpy) is not part of the source.  The model lets it     *)
(* behave in every way the source can observe: an operator call may raise, *)
(* an applied DECIMATE modifier leaves any face count not above the        *)
(* current one, an applied SUBSURF modifier (one level) multiplies the     *)
(* face count, an applied EDGE_SPLIT modifier and the shading operators    *)
(* keep it.                                                                *)
(*                                                                         *)
(* Numbers.  target_reduction is held in percent (25 for 0.25); the model  *)
(* draws it from values that are exact binary fractions, so that           *)
(* int(original_faces * (1 - target_reduction)) is the exact floor.  The   *)
(* float comparisons  a < b*0.95,  t*0.7 <= a,  a <= t*1.3  on integer     *)
(* face counts agree with  100a < 95b,  7t <= 10a,  10a <= 13t.            *)
(*                                                                         *)
(* Three specifications share the variables.  Spec is one call of          *)
(* intelligent_mesh_reduction; SpecAnalyze is one call of                  *)
(* analyze_mesh_quality on small meshes of every topology; SpecBatch is    *)
(* one run of main, in which each call of intelligent_mesh_reduction is     *)
(* summarised by reduce_outcomes.  Each leaves the variables of the other  *)
(* two at rest.                                                            *)
(***************************************************************************)
EXTENDS Integers, Sequences, FiniteSets, TLC

\* ------------------------------------------------------------------ bounds

\* Face count of the largest mesh handed to the controller.
LargeMesh == 1000

\* Face counts of the meshes handed to the controller.
MeshSizes == {0, 3, 99, 100, LargeMesh}

\* Face counts the engine may leave behind after a DECIMATE modifier.
FaceCounts ==
    {0, 3, 4, 34, 35, 65, 66, 94, 95, 99, 100,
     349, 350, 480, 650, 651, 680, 949, 950, 999, LargeMesh}

\* target_reduction values, in percent.
TargetReductions == {25, 50, 100}

\* Kinds of object handed to the controller: a mesh, an object of another
\* type, and an object whose reference is dead (reading it raises).
ObjTypes == {"MESH", "CURVE", "REMOVED"}

\* Largest face count and vertex count of the meshes analysed on their own.
MaxAnalysisFaces == 10

MaxAnalysisVerts == 12

\* Largest number of .obj files in the input directory.
MaxFiles == 2

\* Values of the --reduction argument that parse as a finite number, in
\* percent (0.25 on the command line is 25).
ArgPercents == {-50, 0, 25, 100, 150}

\* ------------------------------------------------------ program constants

\* intelligent_mesh_reduction: meshes below this face count are skipped.
SmallMeshFaces == 100

\* try_quadric_decimate: meshes below this face count are not collapsed.
MinCollapseFaces == 4

\* parse_arguments: TARGET_REDUCTION = 0.5, in percent.
DefaultReduction == 50

\* ------------------------------------------------------------------ state

VARIABLES
    obj_type,          \* obj.type, or "REMOVED" for a dead reference
    polygons,          \* len(obj.data.polygons)
    modifiers,         \* obj.modifiers: names of the pending modifiers
    target_reduction,  \* argument of intelligent_mesh_reduction, in percent
    pc,                \* position in intelligent_mesh_reduction
    original_faces,    \* local original_faces
    target_faces,      \* local target_faces
    mesh_type,         \* local mesh_type
    success,           \* local success (the sticky flag)
    i,                 \* loop counter of the strategy loop
    faces_before,      \* local faces_before of the latest attempt
    result,            \* value returned by intelligent_mesh_reduction
    \* history of the run, read by the properties only
    input_faces,       \* face count of the object when reduce was called
    analyzed,          \* analyze_mesh_quality was called
    attempted,         \* number of strategies executed
    last_name,         \* name of the latest strategy executed
    last_ret,          \* what the latest strategy returned
    last_raised,       \* the engine raised during the latest strategy
    in_band_seen,      \* some attempt left the face count in the band
    converged_seen,    \* some attempt returned true, was effective, in band
    effective_seen,    \* some attempt returned true and was effective
    post_invoked,      \* apply_smart_smooth was called
    post_raised,       \* the engine raised inside apply_smart_smooth
    escaped,           \* where an exception left reduce from, or "none"
    last_ran,          \* primitives called by the latest strategy
    reduced_seen,      \* some attempt left fewer than 0.95*faces_before faces
    \* analyze_mesh_quality on its own
    quad_faces,        \* local quad_faces
    vert_count,        \* local vert_count
    quad_ratio,        \* local quad_ratio as <<numerator, denominator>>,
                       \* <<>> while it has not been computed
    vert_face_ratio,   \* local vert_face_ratio, likewise
    \* main
    argv,              \* the --reduction argument of the command line
    TARGET_REDUCTION,  \* main's TARGET_REDUCTION
    warned,            \* parse_arguments printed its warning
    main_pc,           \* position in main
    obj_files,         \* len(obj_files)
    processed,         \* iterations of the file loop that have ended
    successful_files,  \* main's successful_files
    file_log           \* what happened in each iteration, in order

reduceVars ==
    <<obj_type, polygons, modifiers, target_reduction, pc, original_faces,
      target_faces, mesh_type, success, i, faces_before, result,
      input_faces, analyzed, attempted, last_name, last_ret, last_raised,
      in_band_seen, converged_seen, effective_seen, post_invoked,
      post_raised, escaped, last_ran, reduced_seen>>

analysisVars == <<quad_faces, vert_count, quad_ratio, vert_face_ratio>>

driverVars == <<argv, TARGET_REDUCTION, warned, main_pc, obj_files, processed,
                successful_files, file_log>>

vars == <<reduceVars, analysisVars, driverVars>>

\* ------------------------------------------------------------- analysis

\* is_valid_obj without the test for faces.
is_valid_obj_type_only(type, face_count) == type = "MESH"

\* is_valid_obj: a dead reference raises ReferenceError on o.name, which is
\* caught; another type fails the first conjunct.
is_valid_obj(type, face_count) ==
    /\ type # "REMOVED"
    /\ type = "MESH"
    /\ face_count > 0

\* The ratio with the face count turned round.
RatioInverted(count, face_count) ==
    IF count > 0 THEN <<face_count, count>> ELSE <<0, 1>>

\* Lines 197-198: count / face_count if face_count > 0 else 0, kept as the
\* fraction <<numerator, denominator>>.
Ratio(count, face_count) ==
    IF face_count > 0 THEN <<count, face_count>> ELSE <<0, 1>>

\* The comparison that also matches at the threshold.
AboveOrEqual(ratio, tenths) == 10 * ratio[1] >= tenths * ratio[2]

\* Lines 207 and 209: ratio > tenths/10. On these counts the float
\* comparison count/face_count > 0.7 is 10*count > 7*face_count.
Above(ratio, tenths) == 10 * ratio[1] > tenths * ratio[2]

\* analyze_mesh_quality whose last branch gives "unknown".
analyze_mesh_quality_unknown_default(type, face_count, qf, vc) ==
    IF ~is_valid_obj(type, face_count) THEN "unknown"
    ELSE IF Above(Ratio(qf, face_count), 7) THEN "structured"
    ELSE IF Above(Ratio(vc, face_count), 8) THEN "dense"
    ELSE "unknown"

\* analyze_mesh_quality on a mesh with the given counts.
analyze_mesh_quality(type, face_count, qf, vc) ==
    IF ~is_valid_obj(type, face_count) THEN "unknown"
    ELSE IF Above(Ratio(qf, face_count), 7) THEN "structured"
    ELSE IF Above(Ratio(vc, face_count), 8) THEN "dense"
    ELSE "organic"

\* Topologies a mesh of face_count faces may have: <<quad_faces, vert_count>>.
Topologies(face_count) ==
    {0, (7 * face_count) \div 10, (7 * face_count) \div 10 + 1, face_count}
    \X {face_count \div 2, (8 * face_count) \div 10,
        (8 * face_count) \div 10 + 1, 2 * face_count}

\* ---------------------------------------------------------------- engine

\* bpy.ops.object.modifier_apply of a DECIMATE modifier that does not raise:
\* the face counts it may leave.
DecimateApply(p) == {n \in FaceCounts : n < p} \cup {p}

\* A subdivision that makes faces on a mesh that has none.
SubsurfApplyFromNothing(p) == IF p = 0 THEN {4} ELSE {3 * p, 4 * p}

\* bpy.ops.object.modifier_apply of a SUBSURF modifier with levels = 1 that
\* does not raise: every triangle becomes 3 faces, every quad 4.
SubsurfApply(p) == IF p = 0 THEN {0} ELSE {3 * p, 4 * p}

\* What a primitive leaves: the mesh, the modifier stack, the value it
\* returns, and whether the engine raised inside it; ran collects the
\* primitives that were called.
Outcome(p, mods, ret, raised) ==
    [polygons |-> p, modifiers |-> mods, ret |-> ret, raised |-> raised,
     ran |-> {}]

\* The outcomes of a call of the primitive of that name.
Ran(name, outcomes) == {[o EXCEPT !.ran = @ \cup {name}] : o \in outcomes}

\* ------------------------------------------------------------ primitives

\* The body shared by try_unsubdiv_decimate and try_planar_decimate:
\* mode_set, clear the stack, add the modifier, apply it, compare.
DecimateWith(name, p, mods) ==
    \* mode_set raises before the stack is cleared
    {Outcome(p, mods, FALSE, TRUE)}
    \* modifier_apply raises: the new modifier stays on the stack
    \cup {Outcome(p, <<name>>, FALSE, TRUE)}
    \* applied
    \cup {Outcome(n, <<>>, n < p, FALSE) : n \in DecimateApply(p)}

\* try_quadric_decimate.  ratio and angle_limit parameterise the engine's
\* effect, which the source does not determine.
try_quadric_decimate(p, mods) ==
    Ran("collapse",
        {Outcome(p, mods, FALSE, TRUE)}
        \cup (IF p < MinCollapseFaces
              THEN {Outcome(p, <<>>, FALSE, FALSE)}
              ELSE {Outcome(p, <<"QuadricDecimate">>, FALSE, TRUE)}
                   \cup {Outcome(n, <<>>, n < p, FALSE) :
                            n \in DecimateApply(p)}))

\* try_unsubdiv_decimate whose except clause returns True.
try_unsubdiv_true_on_error(p, mods) ==
    Ran("unsubdivide",
        {Outcome(p, mods, TRUE, TRUE)}
        \cup {Outcome(p, <<"UnsubDiv">>, TRUE, TRUE)}
        \cup {Outcome(n, <<>>, n < p, FALSE) : n \in DecimateApply(p)})

try_unsubdiv_decimate(p, mods) ==
    Ran("unsubdivide", DecimateWith("UnsubDiv", p, mods))

try_planar_decimate(p, mods) ==
    Ran("planar", DecimateWith("PlanarDecimate", p, mods))

\* apply_subdivision_surface_then_decimate: the stack is not cleared before
\* SubSurf is added; with 0 faces after subdividing, adjusted_reduction
\* divides by zero, which the except clause catches.
apply_subdivision_surface_then_decimate(p, mods) ==
    Ran("subdivide",
        {Outcome(p, Append(mods, "SubSurf"), FALSE, TRUE)}
        \cup UNION {
               IF s = 0
               THEN {Outcome(s, mods, FALSE, FALSE)}
               ELSE try_quadric_decimate(s, mods)
               : s \in SubsurfApply(p)})

\* "Planar + Quadric": try_planar_decimate(obj, 3) and try_quadric_decimate.
\* `and` evaluates its right operand only when the left one is true.
planar_and_quadric(p, mods) ==
    UNION {
      IF o.ret
      THEN Ran("planar", try_quadric_decimate(o.polygons, o.modifiers))
      ELSE {o}
      : o \in try_planar_decimate(p, mods)}

\* ------------------------------------------------------ strategy catalog

\* The catalog with Un-Subdivide and Standard Quadric of the structured list
\* in each other's place.
strategies_swapped(type) ==
    IF type = "structured"
    THEN <<"Conservative Quadric", "Standard Quadric", "Un-Subdivide",
           "Planar Dissolve">>
    ELSE IF type = "dense"
    THEN <<"SubSurf + Decimate", "Progressive Quadric", "Un-Subdivide",
           "Aggressive Quadric">>
    ELSE <<"Quality Quadric", "SubSurf + Decimate", "Planar + Quadric",
           "Standard Quadric">>

strategies(type) ==
    IF type = "structured"
    THEN <<"Conservative Quadric", "Un-Subdivide", "Standard Quadric",
           "Planar Dissolve">>
    ELSE IF type = "dense"
    THEN <<"SubSurf + Decimate", "Progressive Quadric", "Un-Subdivide",
           "Aggressive Quadric">>
    ELSE <<"Quality Quadric", "SubSurf + Decimate", "Planar + Quadric",
           "Standard Quadric">>

\* strategy_func(): the outcomes of calling the strategy of that name.
strategy_func(name, p, mods) ==
    CASE name \in {"Conservative Quadric", "Standard Quadric",
                   "Progressive Quadric", "Aggressive Quadric",
                   "Quality Quadric"}
           -> try_quadric_decimate(p, mods)
      [] name = "Un-Subdivide" -> try_unsubdiv_decimate(p, mods)
      [] name = "Planar Dissolve" -> try_planar_decimate(p, mods)
      [] name = "SubSurf + Decimate"
           -> apply_subdivision_surface_then_decimate(p, mods)
      [] name = "Planar + Quadric" -> planar_and_quadric(p, mods)

\* ------------------------------------------------------------ controller

\* The 100-face floor taken for the 4-face floor of the collapse.
IsSmallMeshCollapseFloor(faces) == faces < MinCollapseFaces

\* original_faces < 100
IsSmallMesh(faces) == faces < SmallMeshFaces

\* int(original_faces * (1 - target_reduction))
TargetFaces(faces, reduction) == (faces * (100 - reduction)) \div 100

\* faces_after < faces_before * 0.95
Effective(before, after) == 100 * after < 95 * before

\* target_faces * 0.7 <= faces_after <= target_faces * 1.3
CloseEnough(after, target) ==
    /\ 7 * target <= 10 * after
    /\ 10 * after <= 13 * target

\* The flag set by any attempt that reduced by more than 5%, whatever the
\* strategy returned.
MarksSuccessAnyReturn(ret, before, after) == Effective(before, after)

\* The loop body marks the run successful.
MarksSuccess(ret, before, after) == ret /\ Effective(before, after)

\* The break with the band's ends left out.
BreaksStrict(ret, before, after, target) ==
    /\ ret
    /\ Effective(before, after)
    /\ 7 * target < 10 * after
    /\ 10 * after < 13 * target

\* The loop body breaks.
Breaks(ret, before, after, target) ==
    /\ ret
    /\ Effective(before, after)
    /\ CloseEnough(after, target)

\* A skipped mesh reported as a failure.
SmallMeshResultFalse == FALSE

\* The value returned for a mesh below the 100-face floor (line 394).
SmallMeshResult == TRUE

\* The sticky flag returned in place of the re-check.
FinalResultSticky(final, original, sticky) == sticky

\* The value returned at the end (lines 463-468): final_faces <
\* original_faces; the sticky flag is not read.
FinalResult(final, original, sticky) == final < original

\* intelligent_mesh_reduction has not been called.
ReduceNotCalled ==
    /\ modifiers = <<>>
    /\ pc = "idle"
    /\ original_faces = 0
    /\ target_faces = 0
    /\ mesh_type = "none"
    /\ success = FALSE
    /\ i = 0
    /\ faces_before = 0
    /\ result = FALSE
    /\ input_faces = polygons
    /\ analyzed = FALSE
    /\ attempted = 0
    /\ last_name = "none"
    /\ last_ret = FALSE
    /\ last_raised = FALSE
    /\ in_band_seen = FALSE
    /\ converged_seen = FALSE
    /\ effective_seen = FALSE
    /\ post_invoked = FALSE
    /\ post_raised = FALSE
    /\ escaped = "none"
    /\ last_ran = {}
    /\ reduced_seen = FALSE

\* analyze_mesh_quality is not run on its own.
AnalysisIdle ==
    /\ quad_faces = 0
    /\ vert_count = 0
    /\ quad_ratio = <<>>
    /\ vert_face_ratio = <<>>

\* main is not run.
DriverIdle ==
    /\ argv = [kind |-> "absent", percent |-> 0]
    /\ TARGET_REDUCTION = [kind |-> "number", percent |-> DefaultReduction]
    /\ warned = FALSE
    /\ main_pc = "idle"
    /\ obj_files = 0
    /\ processed = 0
    /\ successful_files = 0
    /\ file_log = <<>>

\* A call intelligent_mesh_reduction(obj, target_reduction).
Init ==
    /\ obj_type \in ObjTypes
    /\ polygons \in (IF obj_type = "MESH" THEN MeshSizes ELSE {0})
    /\ target_reduction \in TargetReductions
    /\ ReduceNotCalled
    /\ AnalysisIdle
    /\ DriverIdle

\* Lines 384-386: the object is not a mesh with faces.
RejectInvalid ==
    /\ pc = "idle"
    /\ ~is_valid_obj(obj_type, polygons)
    /\ pc' = "done"
    /\ result' = FALSE
    /\ UNCHANGED <<obj_type, polygons, modifiers, target_reduction,
                   original_faces, target_faces, mesh_type, success, i,
                   faces_before, input_faces, analyzed, attempted, last_name,
                   last_ret, last_raised, in_band_seen, converged_seen,
                   effective_seen, post_invoked, post_raised, escaped,
                   last_ran, reduced_seen,
                   analysisVars, driverVars>>

\* Lines 388-394: fewer than 100 faces.
SkipSmall ==
    /\ pc = "idle"
    /\ is_valid_obj(obj_type, polygons)
    /\ IsSmallMesh(polygons)
    /\ original_faces' = polygons
    /\ pc' = "done"
    /\ result' = SmallMeshResult
    /\ UNCHANGED <<obj_type, polygons, modifiers, target_reduction,
                   target_faces, mesh_type, success, i,
                   faces_before, input_faces, analyzed, attempted, last_name,
                   last_ret, last_raised, in_band_seen, converged_seen,
                   effective_seen, post_invoked, post_raised, escaped,
                   last_ran, reduced_seen,
                   analysisVars, driverVars>>

\* Lines 388-431: analysis, target, choice of the strategy list.
Select ==
    /\ pc = "idle"
    /\ is_valid_obj(obj_type, polygons)
    /\ ~IsSmallMesh(polygons)
    /\ original_faces' = polygons
    /\ \E topo \in Topologies(polygons) :
         mesh_type' = analyze_mesh_quality(obj_type, polygons, topo[1], topo[2])
    /\ analyzed' = TRUE
    /\ success' = FALSE
    /\ target_faces' = TargetFaces(polygons, target_reduction)
    /\ i' = 1
    /\ pc' = "loop"
    /\ UNCHANGED <<obj_type, polygons, modifiers, target_reduction,
                   faces_before, result, input_faces, attempted, last_name,
                   last_ret, last_raised, in_band_seen, converged_seen,
                   effective_seen, post_invoked, post_raised, escaped,
                   last_ran, reduced_seen,
                   analysisVars, driverVars>>

\* Lines 434-452: one iteration of the strategy loop.  Dividing by
\* faces_before = 0 on line 441 raises out of the function.
Attempt ==
    /\ pc = "loop"
    /\ \E o \in strategy_func(strategies(mesh_type)[i], polygons, modifiers) :
         LET before == polygons
             after == o.polygons
             stop == Breaks(o.ret, before, after, target_faces)
             sticky == success \/ MarksSuccess(o.ret, before, after)
             crash == o.ret /\ before = 0
             last == i = Len(strategies(mesh_type))
         IN  /\ faces_before' = before
             /\ polygons' = after
             /\ modifiers' = o.modifiers
             /\ success' = IF crash THEN success ELSE sticky
             /\ pc' = IF crash THEN "raised"
                      ELSE IF stop \/ last
                      THEN (IF sticky THEN "post" ELSE "final")
                      ELSE "loop"
             /\ i' = IF ~crash /\ ~stop /\ ~last THEN i + 1 ELSE i
             /\ escaped' = IF crash THEN "controller" ELSE escaped
             /\ attempted' = attempted + 1
             /\ last_name' = strategies(mesh_type)[i]
             /\ last_ret' = o.ret
             /\ last_raised' = o.raised
             /\ last_ran' = o.ran
             /\ reduced_seen' = (reduced_seen \/ Effective(before, after))
             /\ in_band_seen' = (in_band_seen \/ CloseEnough(after, target_faces))
             /\ effective_seen' =
                  (effective_seen \/ (o.ret /\ Effective(before, after)))
             /\ converged_seen' =
                  (converged_seen \/ (/\ o.ret
                                      /\ Effective(before, after)
                                      /\ CloseEnough(after, target_faces)))
    /\ UNCHANGED <<obj_type, target_reduction, original_faces, target_faces,
                   mesh_type, result, input_faces, analyzed, post_invoked,
                   post_raised,
                   analysisVars, driverVars>>

\* apply_smart_smooth: what it leaves.  handler_ok tells whether mode_set in
\* the except clause (line 379) returned; when it raises, the exception
\* leaves apply_smart_smooth.
SmoothOutcome(mods, raised, handler_ok) ==
    [modifiers |-> mods, raised |-> raised, handler_ok |-> handler_ok]

apply_smart_smooth(mods) ==
    \* every step returned; the EdgeSplit modifier is applied
    {SmoothOutcome(mods, FALSE, TRUE)}
    \* a step before modifiers.new raised (lines 355-368)
    \cup {SmoothOutcome(mods, TRUE, ok) : ok \in BOOLEAN}
    \* modifier_apply raised (line 373): EdgeSplit stays on the stack
    \cup {SmoothOutcome(Append(mods, "EdgeSplit"), TRUE, ok) : ok \in BOOLEAN}

\* Lines 455-457.
PostProcess ==
    /\ pc = "post"
    /\ \E o \in apply_smart_smooth(modifiers) :
         /\ modifiers' = o.modifiers
         /\ post_raised' = o.raised
         /\ pc' = IF o.handler_ok THEN "final" ELSE "raised"
         /\ escaped' = IF o.handler_ok THEN escaped ELSE "postprocess"
    /\ post_invoked' = TRUE
    /\ UNCHANGED <<obj_type, polygons, target_reduction, original_faces,
                   target_faces, mesh_type, success, i, faces_before, result,
                   input_faces, analyzed, attempted, last_name, last_ret,
                   last_raised, in_band_seen, converged_seen, effective_seen,
                   last_ran, reduced_seen,
                   analysisVars, driverVars>>

\* Lines 460-468.
Finish ==
    /\ pc = "final"
    /\ result' = FinalResult(polygons, original_faces, success)
    /\ pc' = "done"
    /\ UNCHANGED <<obj_type, polygons, modifiers, target_reduction,
                   original_faces, target_faces, mesh_type, success, i,
                   faces_before, input_faces, analyzed, attempted, last_name,
                   last_ret, last_raised, in_band_seen, converged_seen,
                   effective_seen, post_invoked, post_raised, escaped,
                   last_ran, reduced_seen,
                   analysisVars, driverVars>>

Next ==
    \/ RejectInvalid
    \/ SkipSmall
    \/ Select
    \/ Attempt
    \/ PostProcess
    \/ Finish

Spec == Init /\ [][Next]_vars

\* The calls of one run are made one after the other without suspension:
\* every enabled step is eventually taken.
FairSpec == Spec /\ WF_vars(Next)

\* ----------------------------------------- analyze_mesh_quality on its own

\* A call analyze_mesh_quality(obj) on an object of at most MaxAnalysisFaces
\* faces.  A face has at least three vertices, a quad four.
InitAnalyze ==
    /\ obj_type \in ObjTypes
    /\ polygons \in (IF obj_type = "MESH" THEN 0..MaxAnalysisFaces ELSE {0})
    /\ quad_faces \in 0..polygons
    /\ vert_count \in {v \in 0..MaxAnalysisVerts :
                          /\ polygons > 0 => v >= 3
                          /\ quad_faces > 0 => v >= 4}
    /\ quad_ratio = <<>>
    /\ vert_face_ratio = <<>>
    /\ target_reduction = DefaultReduction
    /\ ReduceNotCalled
    /\ DriverIdle

\* Lines 172-212.  An invalid object returns on line 175, before any metric
\* is computed.
Analyze ==
    /\ pc = "idle"
    /\ pc' = "analyzed"
    /\ analyzed' = TRUE
    /\ mesh_type' =
           analyze_mesh_quality(obj_type, polygons, quad_faces, vert_count)
    /\ IF is_valid_obj(obj_type, polygons)
       THEN /\ quad_ratio' = Ratio(quad_faces, polygons)
            /\ vert_face_ratio' = Ratio(vert_count, polygons)
       ELSE UNCHANGED <<quad_ratio, vert_face_ratio>>
    /\ UNCHANGED <<obj_type, polygons, modifiers, target_reduction,
                   original_faces, target_faces, success, i, faces_before,
                   result, input_faces, attempted, last_name, last_ret,
                   last_raised, in_band_seen, converged_seen, effective_seen,
                   post_invoked, post_raised, escaped, last_ran, reduced_seen,
                   quad_faces, vert_count, driverVars>>

NextAnalyze == Analyze

SpecAnalyze == InitAnalyze /\ [][NextAnalyze]_vars

\* ------------------------------------------------------------ batch driver

\* The --reduction argument: absent, given without a value, a text float()
\* rejects, "nan", or a number (in percent).
ArgValues ==
    {[kind |-> k, percent |-> 0] : k \in {"absent", "missing", "text", "nan"}}
    \cup {[kind |-> "number", percent |-> n] : n \in ArgPercents}

\* Numbers of mesh objects in the scene after the import of a file.
MeshObjectCounts == {0, 1, 2}

\* Face counts of the joined mesh of a file.
FileMeshSizes == {0, 99, LargeMesh}

\* parse_arguments: the value it returns and whether it printed the warning.
\* float() raises ValueError on a text, which keeps the default; it accepts
\* "nan" and any number.
parse_arguments(arg) ==
    CASE arg.kind \in {"absent", "missing"} ->
           [value |-> [kind |-> "number", percent |-> DefaultReduction],
            warned |-> FALSE]
      [] arg.kind = "text" ->
           [value |-> [kind |-> "number", percent |-> DefaultReduction],
            warned |-> TRUE]
      [] arg.kind = "nan" ->
           [value |-> [kind |-> "nan", percent |-> 0], warned |-> FALSE]
      [] OTHER ->
           [value |-> [kind |-> "number", percent |-> arg.percent],
            warned |-> FALSE]

\* A range test that lets every value through.
InRangeAlways(reduction) == reduction.kind \in {"number", "nan"}

\* Line 558: 0.0 <= TARGET_REDUCTION <= 1.0; a comparison with nan is false.
InRange(reduction) ==
    /\ reduction.kind = "number"
    /\ 0 <= reduction.percent
    /\ reduction.percent <= 100

\* What intelligent_mesh_reduction does on the joined mesh of a file: it
\* returns False on a mesh without faces, True below 100 faces, and above
\* it returns either value or raises out of apply_smart_smooth.
reduce_outcomes(faces) ==
    IF faces = 0 THEN {"false"}
    ELSE IF faces < SmallMeshFaces THEN {"true"}
    ELSE {"true", "false", "raised"}

\* One iteration of the file loop: the mesh objects the import left and
\* their faces, how far process_obj_file went, and what main did with it.
FileRun(meshes, faces, imported, preview, reduce_ret, ret) ==
    [meshes |-> meshes, faces |-> faces, imported |-> imported,
     preview |-> preview, reduce_ret |-> reduce_ret, ret |-> ret,
     reduction |-> 0, exported |-> FALSE]

\* process_obj_file on a file whose import leaves that many mesh objects
\* with that many faces in all.  read_factory_settings (479), join (502)
\* and setup_scene_for_screenshot (519) are not guarded; import_obj_file and
\* capture_wireframe_screenshot catch what the engine raises.
process_obj_file(meshes, faces) ==
    {FileRun(0, 0, FALSE, "none", "none", "raised")}
    \cup {FileRun(0, 0, FALSE, "none", "none", "false")}
    \cup (IF meshes = 0
          THEN {FileRun(meshes, faces, TRUE, "none", "none", "false")}
          ELSE (IF meshes > 1
                THEN {FileRun(meshes, faces, TRUE, "none", "none", "raised")}
                ELSE {})
               \cup {FileRun(meshes, faces, TRUE, "raised", "none", "raised")}
               \cup {FileRun(meshes, faces, TRUE, preview, r, r) :
                       preview \in {"ok", "failed"},
                       r \in reduce_outcomes(faces)})

\* The file is counted whatever export_obj_file returned.
CountedWithoutExport(run) == run.ret = "true"

\* Lines 587-596: the file is counted.
Counted(run) == run.ret = "true" /\ run.exported

\* A run of main with some --reduction argument.
InitBatch ==
    /\ argv \in ArgValues
    /\ TARGET_REDUCTION = [kind |-> "number", percent |-> DefaultReduction]
    /\ warned = FALSE
    /\ main_pc = "start"
    /\ obj_files = 0
    /\ processed = 0
    /\ successful_files = 0
    /\ file_log = <<>>
    /\ obj_type = "MESH"
    /\ polygons = 0
    /\ target_reduction = DefaultReduction
    /\ ReduceNotCalled
    /\ AnalysisIdle

\* Line 555.
ParseArguments ==
    /\ main_pc = "start"
    /\ TARGET_REDUCTION' = parse_arguments(argv).value
    /\ warned' = parse_arguments(argv).warned
    /\ main_pc' = "parsed"
    /\ UNCHANGED <<argv, obj_files, processed, successful_files, file_log,
                   reduceVars, analysisVars>>

\* Lines 558-560: main prints the error and returns.
RejectReduction ==
    /\ main_pc = "parsed"
    /\ ~InRange(TARGET_REDUCTION)
    /\ main_pc' = "rejected"
    /\ UNCHANGED <<argv, TARGET_REDUCTION, warned, obj_files, processed,
                   successful_files, file_log, reduceVars, analysisVars>>

\* Lines 562-583: the input directory is listed; main returns when it
\* holds no .obj file.
FindFiles ==
    /\ main_pc = "parsed"
    /\ InRange(TARGET_REDUCTION)
    /\ \E n \in 0..MaxFiles :
          /\ obj_files' = n
          /\ main_pc' = IF n = 0 THEN "no_files" ELSE "loop"
    /\ successful_files' = 0
    /\ UNCHANGED <<argv, TARGET_REDUCTION, warned, processed, file_log,
                   reduceVars, analysisVars>>

\* Lines 585-604: one iteration of the file loop.  An exception out of
\* process_obj_file is caught on line 603.
ProcessFile ==
    /\ main_pc = "loop"
    /\ processed < obj_files
    /\ \E meshes \in MeshObjectCounts :
       \E faces \in (IF meshes = 0 THEN {0} ELSE FileMeshSizes) :
       \E run \in process_obj_file(meshes, faces) :
       \E export_ok \in (IF run.ret = "true" THEN BOOLEAN ELSE {FALSE}) :
          LET entry == [run EXCEPT !.exported = export_ok,
                                   !.reduction = TARGET_REDUCTION.percent]
          IN /\ file_log' = Append(file_log, entry)
             /\ successful_files' =
                   IF Counted(entry) THEN successful_files + 1
                   ELSE successful_files
    /\ processed' = processed + 1
    /\ UNCHANGED <<argv, TARGET_REDUCTION, warned, main_pc, obj_files,
                   reduceVars, analysisVars>>

\* Lines 606-607: the loop is over.
Summary ==
    /\ main_pc = "loop"
    /\ processed = obj_files
    /\ main_pc' = "done"
    /\ UNCHANGED <<argv, TARGET_REDUCTION, warned, obj_files, processed,
                   successful_files, file_log, reduceVars, analysisVars>>

NextBatch ==
    \/ ParseArguments
    \/ RejectReduction
    \/ FindFiles
    \/ ProcessFile
    \/ Summary

SpecBatch == InitBatch /\ [][NextBatch]_vars

\* ---------------------------------------------------------------- claims

\* The run left the strategy loop or never entered it, and returned.
Returned == pc = "done"

\* The run reached the strategy loop (a valid mesh of at least 100 faces).
ReachedLoop == analyzed

\* C1 (as stated): once some attempt, whatever it returned and however much
\* it reduced, leaves the face count inside [0.7*target_faces,
\* 1.3*target_faces], no later strategy is executed.
C1_EarlyStopAnyAttempt == [][in_band_seen => attempted' = attempted]_vars

\* C1 (amended): once some attempt whose strategy returned true and that was
\* effective (faces_after < 0.95*faces_before) leaves the face count inside
\* [0.7*target_faces, 1.3*target_faces], no later strategy is executed.
C1_EarlyStop == [][converged_seen => attempted' = attempted]_vars

\* C1 witness: a run stopped early, strategies left untried.
C1_Witness == converged_seen /\ attempted < 4 /\ pc = "done"

\* C2: a valid mesh with fewer than 100 faces: reduce returns success, the
\* face count is the original one, and neither the analysis nor a primitive
\* nor post-processing was invoked; the run never enters the loop.
C2_SmallMeshSkipped ==
    (obj_type = "MESH" /\ input_faces > 0 /\ input_faces < 100) =>
        /\ pc \in {"idle", "done"}
        /\ Returned => result = TRUE
        /\ polygons = input_faces
        /\ modifiers = <<>>
        /\ ~analyzed
        /\ attempted = 0
        /\ ~post_invoked

\* C2 witness: a 99-face mesh was handed in and reduce returned.
C2_Witness == obj_type = "MESH" /\ input_faces = 99 /\ Returned

\* C3 (as stated): for a mesh with exactly 3 faces reduce reports
\* overallSuccess = false.
C3_ThreeFacesFail ==
    (obj_type = "MESH" /\ input_faces = 3 /\ Returned) => result = FALSE

\* C3 (amended): for a mesh with exactly 3 faces reduce reports
\* overallSuccess = true: it returns at the 100-face floor before any
\* strategy is attempted.  The collapse primitive itself, called on 3 faces,
\* returns false and leaves them.
C3_ThreeFacesSucceed ==
    /\ (obj_type = "MESH" /\ input_faces = 3 /\ Returned) =>
           (result = TRUE /\ attempted = 0 /\ polygons = 3)
    /\ \A o \in try_quadric_decimate(3, <<>>) : ~o.ret /\ o.polygons = 3

\* C3 witness: a 3-face mesh was handed in and reduce returned.
C3_Witness == obj_type = "MESH" /\ input_faces = 3 /\ Returned

\* C4: an input that is not a polygonal mesh or has zero faces: the
\* analysis gives "unknown", reduce returns false, the mesh is unchanged and
\* no strategy or post-processing step is invoked.
C4_InvalidRejected ==
    (obj_type # "MESH" \/ input_faces = 0) =>
        /\ \A topo \in Topologies(input_faces) :
             analyze_mesh_quality(obj_type, input_faces, topo[1], topo[2])
                 = "unknown"
        /\ pc \in {"idle", "done"}
        /\ Returned => result = FALSE
        /\ polygons = input_faces
        /\ modifiers = <<>>
        /\ attempted = 0
        /\ ~post_invoked

\* C4 witness: a mesh without faces was handed in and reduce returned.
C4_Witness == obj_type = "MESH" /\ input_faces = 0 /\ Returned

\* C4 witness for another input: an object that is not a mesh.
C4_WitnessNonMesh == obj_type = "CURVE" /\ Returned

\* C5 (as stated): after every attempt whose strategy returned true, the
\* face count the controller measures is at most the one measured before.
C5_Monotonic == (attempted > 0 /\ last_ret) => polygons <= faces_before

\* C6: when a run that reached the strategy loop returns, it returns true
\* exactly when the final face count is below the original one.
C6_FinalRecheck ==
    (ReachedLoop /\ Returned) => (result <=> polygons < original_faces)

\* C6 witness: a run returned false although the sticky flag was set.
C6_Witness == ReachedLoop /\ Returned /\ success /\ ~result

\* C7: when the engine raised during the latest strategy, the strategy
\* returned false, the controller is at the next strategy (or, after the
\* last one, past the loop), and no exception has left reduce from the
\* strategy loop: the only exception that leaves reduce comes from
\* apply_smart_smooth.
C7_StrategyErrorsLocal ==
    /\ (attempted > 0 /\ last_raised) => ~last_ret
    /\ (attempted > 0 /\ last_raised /\ attempted < 4) =>
           (pc = "loop" /\ i = attempted + 1)
    /\ (attempted > 0 /\ last_raised /\ attempted = 4) =>
           pc \in {"post", "final", "done", "raised"}
    /\ pc = "raised" => (escaped = "postprocess" /\ post_invoked)

\* C7 witness: the engine raised in strategy 2 and strategy 3 is next.
C7_Witness == attempted = 2 /\ last_raised /\ pc = "loop" /\ i = 3

\* C7 witness for the whole run: the engine raised in the last strategy and
\* reduce returned.
C7_WitnessReturned == attempted = 4 /\ last_raised /\ Returned

\* The Structured scenario: 1000 faces, target_reduction 0.5.
Scenario ==
    /\ mesh_type = "structured"
    /\ original_faces = 1000
    /\ target_reduction = 50

\* C8, safety part: strategies run in the order of the list of the mesh's
\* category, each at most once, at most 4; an effective attempt outside the
\* band is followed by the next strategy; in the scenario Conservative
\* Quadric giving 680 is followed by Un-Subdivide, and Un-Subdivide giving
\* 480 ends the loop, reduce returning true with a reduction of 52%.
C8_OrderInv ==
    /\ attempted <= 4
    /\ attempted > 0 => last_name = strategies(mesh_type)[attempted]
    /\ pc = "loop" => (i = attempted + 1 /\ i <= 4 /\ ~converged_seen)
    /\ (/\ attempted \in 1..3
        /\ last_ret
        /\ Effective(faces_before, polygons)
        /\ ~CloseEnough(polygons, target_faces)) => pc = "loop"
    /\ (Scenario /\ attempted = 1 /\ polygons = 680) =>
           (/\ target_faces = 500
            /\ last_name = "Conservative Quadric"
            /\ pc = "loop"
            /\ strategies(mesh_type)[i] = "Un-Subdivide")
    /\ (Scenario /\ attempted = 2 /\ faces_before = 680 /\ polygons = 480) =>
           (/\ last_name = "Un-Subdivide"
            /\ pc # "loop"
            /\ Returned =>
                 (/\ result = TRUE
                  /\ 100 * (original_faces - polygons) = 52 * original_faces))

\* C8: the safety part in every state, and every run ends.
C8_OrderAndTermination == []C8_OrderInv /\ <>(pc \in {"done", "raised"})

\* C8 witness: the scenario ran to its end.
C8_Witness ==
    /\ Scenario
    /\ attempted = 2
    /\ faces_before = 680
    /\ polygons = 480
    /\ Returned

\* C9 (as stated): in every run in which apply_smart_smooth was invoked,
\* reduce returns true.
C9_PostOnlyOnSuccess == (post_invoked /\ Returned) => result = TRUE

\* C10 (as stated): when a post-processing step failed, reduce still
\* returns, and returns what it returns when post-processing succeeds.
C10_PostFailureNotFatal ==
    post_raised =>
        /\ pc # "raised"
        /\ Returned => (result <=> polygons < original_faces)

\* The analysis was run on its own and has returned.
Analyzed == pc = "analyzed"

\* C11: the category is decided in order, first match wins: quadRatio > 0.7
\* gives Structured whatever the vertex count; otherwise vertexFaceRatio >
\* 0.8 gives Dense; otherwise Organic.  A ratio of exactly 0.7 or 0.8 does
\* not match, and the category is fixed by the three counts.
C11_ClassificationOrder ==
    (Analyzed /\ obj_type = "MESH" /\ polygons > 0) =>
        /\ 10 * quad_faces > 7 * polygons => mesh_type = "structured"
        /\ (10 * quad_faces <= 7 * polygons
            /\ 10 * vert_count > 8 * polygons) => mesh_type = "dense"
        /\ (10 * quad_faces <= 7 * polygons
            /\ 10 * vert_count <= 8 * polygons) => mesh_type = "organic"
        /\ (polygons = 10 /\ quad_faces = 8) => mesh_type = "structured"
        /\ (polygons = 10 /\ quad_faces = 5 /\ vert_count = 9) =>
               mesh_type = "dense"
        /\ (polygons = 10 /\ quad_faces = 4 /\ vert_count = 5) =>
               mesh_type = "organic"
        /\ (polygons = 10 /\ quad_faces = 7) => mesh_type # "structured"
        /\ (polygons = 10 /\ quad_faces = 7 /\ vert_count = 8) =>
               mesh_type = "organic"

\* C11 witness: both ratios exactly at their thresholds.
C11_Witness ==
    /\ Analyzed
    /\ obj_type = "MESH"
    /\ polygons = 10
    /\ quad_faces = 7
    /\ vert_count = 8
    /\ mesh_type = "organic"

\* C11 witness: a high quad ratio wins over a high vertex ratio.
C11_WitnessStructured ==
    /\ Analyzed
    /\ polygons = 10
    /\ quad_faces = 8
    /\ vert_count = 12
    /\ mesh_type = "structured"

\* main went through its file loop and printed the summary.
BatchDone == main_pc = "done"

\* The iterations in which reduce returned True and the export succeeded.
CountedFiles ==
    {k \in 1..Len(file_log) :
        file_log[k].reduce_ret = "true" /\ file_log[k].exported}

\* C12: a failure or an exception on one file never ends the batch: every
\* file found is processed whatever happened to the earlier ones, and the
\* success counter counts exactly the files whose reduce returned success and
\* whose export succeeded, so it never exceeds the number of files processed.
C12_BatchNeverAborted ==
    /\ main_pc \in {"loop", "done"} =>
          /\ Len(file_log) = processed
          /\ processed <= obj_files
          /\ successful_files = Cardinality(CountedFiles)
          /\ successful_files <= processed
    /\ (main_pc = "loop" /\ processed < obj_files) => ENABLED ProcessFile
    /\ BatchDone => processed = obj_files

\* C12 witness: the first file raised, the second one was still processed
\* and counted.
C12_Witness ==
    /\ BatchDone
    /\ obj_files = 2
    /\ file_log[1].ret = "raised"
    /\ file_log[2].ret = "true"
    /\ file_log[2].exported
    /\ successful_files = 1

\* C12 witness: reduce succeeded and the export failed, the file is not
\* counted.
C12_WitnessExportFailed ==
    /\ BatchDone
    /\ obj_files = 1
    /\ file_log[1].ret = "true"
    /\ ~file_log[1].exported
    /\ successful_files = 0

\* parse_arguments has returned.
Parsed == main_pc \notin {"idle", "start"}

\* The --reduction argument is not a number.
NotANumber == argv.kind = "text"

\* The --reduction argument is a float outside [0,1] (nan included).
OutOfRange ==
    \/ argv.kind = "nan"
    \/ argv.kind = "number" /\ (argv.percent < 0 \/ argv.percent > 100)

\* C13 (as stated): a targetReduction that is not a number or lies outside
\* [0,1] falls back to 0.5 with a warning, the batch is processed with 0.5,
\* and the run is never stopped before any file is processed.
C13_FallbackToDefault ==
    (Parsed /\ (NotANumber \/ OutOfRange)) =>
        /\ TARGET_REDUCTION = [kind |-> "number", percent |-> 50]
        /\ warned
        /\ main_pc # "rejected"
        /\ \A k \in 1..Len(file_log) : file_log[k].reduction = 50

\* C13 (amended): a targetReduction that is not a number falls back to 0.5
\* with a warning and the batch is processed with 0.5; a number outside
\* [0,1] is kept, without a warning, and main returns with an error before
\* any file is processed.
C13_FallbackOrReject ==
    /\ (Parsed /\ NotANumber) =>
          /\ TARGET_REDUCTION = [kind |-> "number", percent |-> 50]
          /\ warned
          /\ main_pc # "rejected"
          /\ \A k \in 1..Len(file_log) : file_log[k].reduction = 50
    /\ (Parsed /\ OutOfRange) =>
          /\ TARGET_REDUCTION = [kind |-> argv.kind, percent |-> argv.percent]
          /\ ~warned
          /\ main_pc \in {"parsed", "rejected"}
          /\ processed = 0
          /\ file_log = <<>>

\* C13 witness: a text was given and two files were processed with 0.5.
C13_Witness ==
    /\ NotANumber
    /\ BatchDone
    /\ processed = 2
    /\ file_log[2].reduction = 50

\* C13 witness: 1.5 was given and main returned with the error.
C13_WitnessRejected ==
    /\ argv = [kind |-> "number", percent |-> 150]
    /\ main_pc = "rejected"

\* C14 (as stated): for the same mesh and targetReduction, whether reduce is
\* called is the same whether the preview taken before the reduction (scene
\* setup and render) succeeded or failed.
C14_PreviewIndependent ==
    \A j, k \in 1..Len(file_log) :
        (/\ file_log[j].preview # "none"
         /\ file_log[k].preview # "none"
         /\ file_log[j].meshes = file_log[k].meshes
         /\ file_log[j].faces = file_log[k].faces
         /\ file_log[j].reduction = file_log[k].reduction) =>
            ((file_log[j].reduce_ret # "none")
                <=> (file_log[k].reduce_ret # "none"))

\* C14, the part that holds: a failed render alone (caught inside
\* capture_wireframe_screenshot) leaves the call of reduce in place.
C14_RenderFailureHarmless ==
    \A k \in 1..Len(file_log) :
        file_log[k].preview \in {"ok", "failed"} =>
            file_log[k].reduce_ret # "none"

\* The strategy loop of the run is over.
LoopLeft == analyzed /\ pc \in {"post", "final", "done", "raised"}

\* C15 (as stated): at the end of the strategy loop the sticky flag is true
\* if and only if some attempt of the run had facesAfter < 0.95 *
\* facesBefore, attempts whose strategy returned false included.
C15_StickyIffReduced == LoopLeft => (success <=> reduced_seen)

\* C15 (amended): the sticky flag is true if and only if some attempt of the
\* run whose strategy returned true had facesAfter < 0.95 * facesBefore, and
\* once set it is never reset.  An attempt whose strategy returned false
\* does not set it, whatever it did to the face count.
C15_StickyIffEffective ==
    /\ [](analyzed => (success <=> effective_seen))
    /\ [][success => success']_vars

\* C15 witness: the composite reduced the mesh by more than 5% and returned
\* false; the flag is not set at the end of the loop.
C15_Witness ==
    /\ LoopLeft
    /\ reduced_seen
    /\ ~effective_seen
    /\ ~success
    /\ mesh_type = "organic"
    /\ Returned
    /\ result

\* C15 witness: the flag set by the first attempt is still set after three
\* attempts that returned false.
C15_WitnessSticky ==
    /\ LoopLeft
    /\ attempted = 4
    /\ ~last_ret
    /\ success

\* C16 (as stated): the composite 'Planar then Quadric' runs both primitives
\* every time it is attempted; the quadric collapse is run even when the
\* planar dissolve returned false.
C16_CompositeRunsBoth ==
    (attempted > 0 /\ last_name = "Planar + Quadric") =>
        last_ran = {"planar", "collapse"}

\* C17 (as stated): after a primitive has returned, with true or false and
\* also when the engine raised while applying a modifier, no modifier is
\* pending on the mesh; at the end of a reduce run the stack is empty.
C17_NoPendingModifier ==
    /\ (attempted > 0 /\ pc = "loop") => modifiers = <<>>
    /\ Returned => modifiers = <<>>

\* C18 (as stated): a primitive returns true if and only if the face count
\* after the call is strictly less than the face count when the call
\* started, and a call that returns false leaves the face count as it was;
\* also for subdivideThenCollapse.
C18_TrueIffReduced ==
    (attempted > 0 /\ last_name # "Planar + Quadric") =>
        /\ last_ret <=> polygons < faces_before
        /\ ~last_ret => polygons = faces_before

\* The object, as reduce received it, is one the analysis calls Unknown.
AnalysisUnknown ==
    \A topo \in Topologies(input_faces) :
        analyze_mesh_quality(obj_type, input_faces, topo[1], topo[2])
            = "unknown"

\* C19: no strategy list is selected and no strategy is attempted for a mesh
\* whose classification is Unknown; Unknown is never treated as Organic.
C19_UnknownSkipped ==
    /\ AnalysisUnknown => (attempted = 0 /\ pc \in {"idle", "done"})
    /\ mesh_type = "unknown" => (attempted = 0 /\ pc # "loop")
    /\ (pc = "loop" \/ attempted > 0) =>
          mesh_type \in {"structured", "dense", "organic"}

\* C19 witness: reduce was called on an object the analysis calls Unknown
\* and returned without an attempt.
C19_Witness ==
    /\ AnalysisUnknown
    /\ obj_type = "REMOVED"
    /\ Returned
    /\ attempted = 0
    /\ ~result

\* A metric that was computed and lies in [0,1].
InUnitInterval(ratio) ==
    /\ Len(ratio) = 2
    /\ 0 <= ratio[1]
    /\ ratio[1] <= ratio[2]

\* A metric that was computed and is 0.
IsZero(ratio) == Len(ratio) = 2 /\ ratio[1] = 0

\* C20 (as stated): for a mesh with faces both metrics lie in [0,1]; for a
\* mesh without faces both are 0.
C20_MetricsInUnitInterval ==
    (Analyzed /\ obj_type = "MESH") =>
        /\ polygons > 0 =>
               InUnitInterval(quad_ratio) /\ InUnitInterval(vert_face_ratio)
        /\ polygons = 0 => IsZero(quad_ratio) /\ IsZero(vert_face_ratio)

\* C20 (amended): for a mesh with faces quadRatio is quadFaces/faceCount and
\* lies in [0,1], and vertexFaceRatio is vertexCount/faceCount and is at
\* least 0 (it may exceed 1); for a mesh without faces the analysis returns
\* Unknown and computes no metric.
C20_Metrics ==
    (Analyzed /\ obj_type = "MESH") =>
        /\ polygons > 0 =>
               /\ quad_ratio = <<quad_faces, polygons>>
               /\ InUnitInterval(quad_ratio)
               /\ vert_face_ratio = <<vert_count, polygons>>
               /\ vert_face_ratio[1] >= 0
        /\ polygons = 0 =>
               /\ mesh_type = "unknown"
               /\ quad_ratio = <<>>
               /\ vert_face_ratio = <<>>

\* C20 witness: a single triangle has three vertices for one face.
C20_Witness ==
    /\ Analyzed
    /\ polygons = 1
    /\ vert_count = 3
    /\ quad_ratio = <<0, 1>>
    /\ vert_face_ratio = <<3, 1>>

\* C21: the controller never divides by zero.  Whenever a strategy returned
\* true, so that line 441 divides by faces_before, faces_before > 0, also
\* after an earlier strategy left the mesh with 0 faces; whenever line 461
\* divides by original_faces, original_faces >= 100; and no arithmetic error
\* leaves the strategy loop.
C21_NoDivisionByZero ==
    /\ (attempted > 0 /\ last_ret) => faces_before > 0
    /\ (analyzed /\ pc \in {"final", "done"}) => original_faces >= 100
    /\ escaped # "controller"
    /\ pc = "raised" => escaped = "postprocess"

\* C21 witness: an earlier strategy left the mesh with 0 faces, the
\* subdivide-then-collapse strategy was then run on it (its own division by
\* the subdivided face count is caught) and reduce returned.
C21_Witness ==
    /\ Returned
    /\ original_faces >= 100
    /\ attempted = 4
    /\ polygons = 0
    /\ faces_before = 0
    /\ ~last_ret
    /\ mesh_type = "organic"

\* C21 witness: subdivide-then-collapse has just run on a mesh of 0 faces.
C21_WitnessSubdivideEmpty ==
    /\ attempted > 1
    /\ last_name = "SubSurf + Decimate"
    /\ faces_before = 0
    /\ "subdivide" \in last_ran
    /\ ~last_ret
    /\ ~last_raised

====
